---------------------------- MODULE Spec2Model ----------------------------
(***************************************************************************)
(* Model of the discovery-and-ranking pipeline of instaeye-backend         *)
(* (src/instagram_finder.py): POST /instagram/rank; of POST /discover of   *)
(* src/instgram_finder.py; and of compute_final_score of                   *)
(* src/top_posts.py.                                                       *)
(*                                                                         *)
(* A link is a sequence of tokens.  The characters of the path are one     *)
(* token each; the scheme marker ("https://"), the pieces of a host name   *)
(* and a query string are one token each.  A handle is the sequence of     *)
(* the characters of its name.  Scores are integers in units of 1e-4, the  *)
(* precision of round(score, 4).                                           *)
(*                                                                         *)
(* Every await of the coroutines is a point where the event loop may run   *)
(* another task: one action of the model runs from one await to the next.  *)
(***************************************************************************)
EXTENDS Integers, Sequences, FiniteSets, TLC

VARIABLES
    pc,              \* position of discover_and_rank
    SERPAPI_KEY,     \* TRUE iff the environment sets a non-empty SERPAPI_KEY
    IG_ACCESS_TOKEN, \* TRUE iff the environment sets a non-empty IG_ACCESS_TOKEN
    min_followers,   \* req.min_followers (None or an integer)
    usernames,       \* the candidate list
    seen,            \* the set of handles already seen
    start,           \* pagination offset of the next search call
    dup_dropped,     \* history: some link was dropped because its handle was seen
    empty_page,      \* history: a page has returned zero results
    task,            \* the enrichment tasks: handle, state and result of each
    sem,             \* the value of asyncio.Semaphore(CONCURRENCY_LIMIT)
    attempts,        \* history: handle -> number of times its enrichment began
    response,        \* the HTTP response of the request
    finished,        \* history: the tasks in the order in which they returned
    xlink,           \* a direct call of the extraction: the link given
    xresult,         \* a direct call of the extraction: what it returned
    rminf,           \* a direct call of the ranking: min_followers
    renriched,       \* a direct call of the ranking: what the providers gave
    rresponse,       \* a direct call of the ranking: the response built
    sargs,           \* a direct call of compute_final_score: its arguments
    sresult,         \* a direct call of compute_final_score: what it returned
    targs,           \* a call of get_top_posts: limit, environment, provider
    tresult,         \* a call of get_top_posts: what it returned or raised
    main_app,        \* src/main.py: how far its imports got and what is bound
    reply            \* src/main.py: what a legacy route answered

vars == << pc, SERPAPI_KEY, IG_ACCESS_TOKEN, min_followers, usernames,
           seen, start, dup_dropped, empty_page, task, sem, attempts, response,
           finished, xlink, xresult, rminf, renriched, rresponse, sargs,
           sresult, targs, tresult, main_app, reply >>

xVars == << xlink, xresult >>

\* The variables of the direct calls of the ranking and of compute_final_score.
hVars == << rminf, renriched, rresponse, sargs, sresult >>

\* The variables of a call of get_top_posts and of the main app.
tVars == << targs, tresult, main_app, reply >>

\* Optional[int]: None is the empty sequence, the integer v is <<v>>.
None == << >>

Some(v) == << v >>

Val(o) == o[1]

\* Python truthiness of an Optional[int]: None and 0 are false.
Truthy(o) == o # None /\ Val(o) # 0

NoResponse == [status |-> "none"]

\* compute_final_score has not been called.  avg_views_30d is a float that
\* the caller computes as a mean: it is kept as a fraction num / den.
NoArgs ==
    [ post |-> [ likes |-> 0, comments |-> 0, shares |-> 0, plays |-> 0 ],
      avg_views_30d |-> [ num |-> 0, den |-> 1 ], followers |-> 0 ]

\* get_top_posts has not been called.
NoTopArgs ==
    [ limit |-> 0, IG_PARENT_USER_ID |-> FALSE,
      graph |-> [ kind |-> "request_failed", media |-> << >> ],
      followers_count |-> None ]

NotCalled == [ kind |-> "none" ]

\* src/main.py has not been started.
NotStarted ==
    [ status |-> "not_started", next |-> 1, loaded |-> { },
      routers |-> FALSE ]

\* No legacy route has been requested.
NoReply == [ route |-> "", status |-> "none" ]

(***************************************************************************)
(* Sizes.  The source sets MAX_ACCOUNTS = 500, TOP_ACCOUNTS = 100 and      *)
(* CONCURRENCY_LIMIT = 20; the model keeps their roles and their order     *)
(* (CONCURRENCY_LIMIT < MAX_ACCOUNTS) at a size TLC can enumerate.         *)
(***************************************************************************)
MAX_ACCOUNTS == 3

TOP_ACCOUNTS == 2

CONCURRENCY_LIMIT == 2

\* The greatest number of links on one page of search results.
MaxPageLen == 2

\* The longest path, in characters, of the generated links.
MaxPathLen == 3

\* Search calls beyond the ones the candidate maximum accounts for.
ExtraCalls == 1

\* The model stops following a request after this many search calls.
MaxCalls == MAX_ACCOUNTS + 1 + ExtraCalls

\* "num": the page size asked of the search provider, and the pagination step.
PAGE_STEP == 20

\* {1,30} of USERNAME_REGEX.
USERNAME_MAX_LEN == 30

(***************************************************************************)
(* Characters and words.                                                   *)
(***************************************************************************)
UpperChars ==
    << "A", "B", "C", "D", "E", "F", "G", "H", "I", "J", "K", "L", "M",
       "N", "O", "P", "Q", "R", "S", "T", "U", "V", "W", "X", "Y", "Z" >>

LowerChars ==
    << "a", "b", "c", "d", "e", "f", "g", "h", "i", "j", "k", "l", "m",
       "n", "o", "p", "q", "r", "s", "t", "u", "v", "w", "x", "y", "z" >>

Digits == { "0", "1", "2", "3", "4", "5", "6", "7", "8", "9" }

Range(s) == { s[i] : i \in DOMAIN s }

\* str.lower() of one character.
LowerChar(c) ==
    IF \E i \in DOMAIN UpperChars : UpperChars[i] = c
    THEN LowerChars[CHOOSE i \in DOMAIN UpperChars : UpperChars[i] = c]
    ELSE c

\* Mutant: the segment is not lowercased.
lower_identity(s) == s

\* str.lower()
lower(s) == [i \in DOMAIN s |-> LowerChar(s[i])]

\* The character class [a-zA-Z0-9._] of USERNAME_REGEX.
UsernameChars ==
    Range(LowerChars) \cup Range(UpperChars) \cup Digits \cup { ".", "_" }

\* Mutant: the pattern has no upper length bound.
USERNAME_REGEX_unbounded(s) ==
    /\ Len(s) >= 1
    /\ \A i \in DOMAIN s : s[i] \in UsernameChars

\* USERNAME_REGEX.match(s): ^[a-zA-Z0-9._]{1,30}$
USERNAME_REGEX(s) ==
    /\ Len(s) >= 1
    /\ Len(s) <= USERNAME_MAX_LEN
    /\ \A i \in DOMAIN s : s[i] \in UsernameChars

EXCLUDED_PATHS ==
    { << "p" >>, << "r", "e", "e", "l" >>, << "t", "v" >>,
      << "s", "t", "o", "r", "i", "e", "s" >>,
      << "e", "x", "p", "l", "o", "r", "e" >>,
      << "a", "c", "c", "o", "u", "n", "t", "s" >>,
      << "d", "i", "r", "e", "c", "t" >>,
      << "a", "b", "o", "u", "t" >>,
      << "d", "e", "v", "e", "l", "o", "p", "e", "r" >>,
      << "p", "r", "i", "v", "a", "c", "y" >>,
      << "t", "e", "r", "m", "s" >>,
      << "b", "l", "o", "g" >> }

(***************************************************************************)
(* urlparse and the extraction of a handle from a link.                    *)
(***************************************************************************)
\* The index of the first token of s that is in delims, Len(s) + 1 if none is.
FirstIn(s, delims) ==
    IF \E i \in DOMAIN s : s[i] \in delims
    THEN CHOOSE i \in DOMAIN s :
             /\ s[i] \in delims
             /\ \A j \in 1..(i - 1) : s[j] \notin delims
    ELSE Len(s) + 1

\* urllib.parse.urlparse: the network location follows "scheme://" and ends at
\* the first of / ? #; the path ends at the first of ? #.
urlparse(link) ==
    LET hasNetloc == Len(link) > 0 /\ link[1] = "https://"
        rest == IF hasNetloc THEN Tail(link) ELSE link
        netlocEnd == IF hasNetloc THEN FirstIn(rest, { "/", "?", "#" }) ELSE 1
        after == SubSeq(rest, netlocEnd, Len(rest))
    IN  [ netloc |-> SubSeq(rest, 1, netlocEnd - 1),
          path |-> SubSeq(after, 1, FirstIn(after, { "?", "#" }) - 1) ]

\* str.split(sep): the pieces of s between the occurrences of sep.
RECURSIVE split(_, _)
split(s, sep) ==
    LET k == FirstIn(s, { sep })
    IN  IF k > Len(s)
        THEN << s >>
        ELSE << SubSeq(s, 1, k - 1) >> \o split(SubSeq(s, k + 1, Len(s)), sep)

\* [p for p in pieces if p]
NonEmpty(pieces) == SelectSeq(pieces, LAMBDA p : p # << >>)

\* Optional[str] of the extraction: no handle is the empty sequence (None and
\* "" are both false in `if username and ...`).
NoUsername == << >>

extract_valid_instagram_username(link) ==
    LET parsed == urlparse(link)
        parts == NonEmpty(split(parsed.path, "/"))
        username == lower(parts[1])
    IN  IF "instagram.com" \notin Range(parsed.netloc) THEN NoUsername
        ELSE IF Len(parts) # 1 THEN NoUsername
        ELSE IF username \in EXCLUDED_PATHS THEN NoUsername
        ELSE IF ~USERNAME_REGEX(username) THEN NoUsername
        ELSE username

(***************************************************************************)
(* The account pipeline.                                                   *)
(***************************************************************************)
\* What a coroutine that has not returned holds, the value None, and an
\* exception leaving the coroutine.
Pending == [kind |-> "pending"]

NoneResult == [kind |-> "none"]

Raised == [kind |-> "raised"]

\* fallback_score: followers * 0.01 if followers else 0.0
fallback_score(followers) == IF followers # 0 THEN followers * 100 ELSE 0

\* sum(p.get("like_count", 0) + p.get("comments_count", 0) for p in posts)
RECURSIVE engagement_sum(_)
engagement_sum(posts) ==
    IF posts = << >> THEN 0
    ELSE Head(posts).like_count + Head(posts).comments_count
         + engagement_sum(Tail(posts))

\* avg_engagement * (followers / 1000), to the 1e-4 unit.
real_score(posts, followers) ==
    (engagement_sum(posts) * followers * 10) \div Len(posts)

\* Mutant: the fallback branch raises instead of returning a record.
account_record_raising(username, followers, posts, minf) ==
    IF followers = None THEN Raised ELSE NoneResult

\* Mutant: min_followers is not looked at.
account_record_unfiltered(username, followers, posts, minf) ==
    IF followers = None
    THEN [ kind |-> "record", username |-> username, followers |-> None,
           post_count |-> 0, account_score |-> fallback_score(0),
           data_source |-> "fallback" ]
    ELSE [ kind |-> "record", username |-> username, followers |-> followers,
           post_count |-> Len(posts),
           account_score |-> IF posts # << >>
                             THEN real_score(posts, Val(followers))
                             ELSE fallback_score(Val(followers)),
           data_source |-> IF posts # << >> THEN "graph" ELSE "fallback" ]

\* Mutant: every record is labelled "fallback".
account_record_mislabelled(username, followers, posts, minf) ==
    IF followers = None
    THEN [ kind |-> "record", username |-> username, followers |-> None,
           post_count |-> 0, account_score |-> fallback_score(0),
           data_source |-> "fallback" ]
    ELSE IF Truthy(minf) /\ Val(followers) < Val(minf)
    THEN NoneResult
    ELSE [ kind |-> "record", username |-> username, followers |-> followers,
           post_count |-> Len(posts),
           account_score |-> IF posts # << >>
                             THEN real_score(posts, Val(followers))
                             ELSE fallback_score(Val(followers)),
           data_source |-> "fallback" ]

\* Mutant: min_followers is tested first, and an unknown count fails it.
account_record_filter_first(username, followers, posts, minf) ==
    IF Truthy(minf) /\ (followers = None \/ Val(followers) < Val(minf))
    THEN NoneResult
    ELSE IF followers = None
    THEN [ kind |-> "record", username |-> username, followers |-> None,
           post_count |-> 0, account_score |-> fallback_score(0),
           data_source |-> "fallback" ]
    ELSE [ kind |-> "record", username |-> username, followers |-> followers,
           post_count |-> Len(posts),
           account_score |-> IF posts # << >>
                             THEN real_score(posts, Val(followers))
                             ELSE fallback_score(Val(followers)),
           data_source |-> IF posts # << >> THEN "graph" ELSE "fallback" ]

\* The body of process_account from the point where followers and posts are
\* known (None and [] when no provider has supplied them).
account_record(username, followers, posts, minf) ==
    IF followers = None
    THEN [ kind |-> "record", username |-> username, followers |-> None,
           post_count |-> 0, account_score |-> fallback_score(0),
           data_source |-> "fallback" ]
    ELSE IF Truthy(minf) /\ Val(followers) < Val(minf)
    THEN NoneResult
    ELSE [ kind |-> "record", username |-> username, followers |-> followers,
           post_count |-> Len(posts),
           account_score |-> IF posts # << >>
                             THEN real_score(posts, Val(followers))
                             ELSE fallback_score(Val(followers)),
           data_source |-> IF posts # << >> THEN "graph" ELSE "fallback" ]

\* The provider calls process_account makes, in order: none.  graph_get_user
\* and graph_get_posts are defined and never called, and no other provider is.
provider_calls(username, token) == << >>

\* process_account, inside `async with sem`: the Graph API branch is `pass`,
\* whatever IG_ACCESS_TOKEN is, so followers and posts keep their first values.
process_account(username, minf, token) ==
    LET followers == None
        posts == << >>
    IN  account_record(username, followers, posts, minf)

(***************************************************************************)
(* The inputs of a rank request: the links a page of search results may    *)
(* hold, and the pages.                                                     *)
(***************************************************************************)
\* https://instagram.com/ab
LinkAb == << "https://", "instagram.com", "/", "a", "b" >>

\* https://www.instagram.com/AB/?utm=1
LinkAbVariant ==
    << "https://", "www.", "instagram.com", "/", "A", "B", "/", "?", "utm=1" >>

\* https://instagram.com/c
LinkC == << "https://", "instagram.com", "/", "c" >>

\* https://instagram.com/d
LinkD == << "https://", "instagram.com", "/", "d" >>

\* https://instagram.com/e
LinkE == << "https://", "instagram.com", "/", "e" >>

\* https://instagram.com/Reel
LinkReel == << "https://", "instagram.com", "/", "R", "e", "e", "l" >>

Links == { LinkAb, LinkAbVariant, LinkC, LinkD, LinkE, LinkReel }

\* data.get("organic_results", []): the links of one page, in order.
Pages == UNION { [1..n -> Links] : n \in 0..MaxPageLen }

(***************************************************************************)
(* Discovery.                                                              *)
(***************************************************************************)

\* Mutant: the seen set is not consulted.
is_new_unchecked(username, seenSet) == username # NoUsername

\* `username and username not in seen`
is_new(username, seenSet) == username # NoUsername /\ username \notin seenSet

\* Mutant: the loop over a page does not stop at the cap.
cap_never_reached(names) == FALSE

\* `len(usernames) >= MAX_ACCOUNTS: break`, inside the loop over a page.
cap_reached(names) == Len(names) >= MAX_ACCOUNTS

\* `while len(usernames) < MAX_ACCOUNTS`
loop_continues(names) == Len(names) < MAX_ACCOUNTS

\* `for item in data.get("organic_results", [])`: st holds usernames, seen and
\* the history flag.
\* extract_valid_instagram_username(item.get("link", "")) for every link a page
\* may hold, computed once.
handle_of == [ l \in Links |-> extract_valid_instagram_username(l) ]

RECURSIVE for_items(_, _)
for_items(items, st) ==
    IF items = << >> THEN st
    ELSE LET username == handle_of[Head(items)]
             st1 == IF is_new(username, st.seen)
                    THEN [ st EXCEPT !.usernames = Append(@, username),
                                     !.seen = @ \cup { username } ]
                    ELSE [ st EXCEPT !.dup = @ \/ username # NoUsername ]
         IN  IF cap_reached(st1.usernames) THEN st1
             ELSE for_items(Tail(items), st1)

\* Mutant: the first candidate gets no task.
make_tasks_skipping(names) ==
    [ i \in 1..(Len(names) - 1) |->
        [ username |-> names[i + 1], state |-> "pending", calls |-> << >>,
          result |-> Pending ] ]

\* tasks = [process_account(sem, session, u, req.min_followers) for u in usernames]
make_tasks(names) ==
    [ i \in DOMAIN names |->
        [ username |-> names[i], state |-> "pending", calls |-> << >>,
          result |-> Pending ] ]

(***************************************************************************)
(* The semaphore.                                                          *)
(***************************************************************************)

\* Mutant: acquire never waits.
sem_free_always(value) == TRUE

\* Semaphore.acquire returns only while the value is positive.
sem_free(value) == value > 0

sem_acquire(value) == value - 1

\* Mutant: the permit is not given back.
sem_release_lost(value) == value

sem_release(value) == value + 1

(***************************************************************************)
(* Ranking.                                                                *)
(***************************************************************************)
\* Mutant: the results are taken in the order in which the tasks returned.
gather_results_as_completed(tasks) ==
    SelectSeq([ k \in DOMAIN tasks |->
                  IF Len(finished) = Len(tasks) THEN tasks[finished[k]].result
                  ELSE tasks[k].result ],
              LAMBDA r : r.kind = "record")

\* [r for r in await asyncio.gather(*tasks) if r]: in the order of the tasks.
gather_results(tasks) ==
    SelectSeq([ i \in DOMAIN tasks |-> tasks[i].result ],
              LAMBDA r : r.kind = "record")

\* The place of results[i] in the stable descending sort: behind every record
\* of greater score, and behind the earlier records of equal score.
rank_of(results, i) ==
    1 + Cardinality({ j \in DOMAIN results :
                        \/ results[j].account_score > results[i].account_score
                        \/ /\ results[j].account_score = results[i].account_score
                           /\ j < i })

\* Mutant: the results are not sorted.
sort_ranked_unsorted(results) == results

\* sorted(results, key=lambda x: x["account_score"], reverse=True)
sort_ranked(results) ==
    [ k \in DOMAIN results |->
        results[CHOOSE i \in DOMAIN results : rank_of(results, i) = k] ]

\* Mutant: the ranking is not truncated.
top_slice_all(ranked) == ranked

\* ranked[:TOP_ACCOUNTS]
top_slice(ranked) ==
    SubSeq(ranked, 1, IF Len(ranked) < TOP_ACCOUNTS THEN Len(ranked) ELSE TOP_ACCOUNTS)

success_response(results) ==
    LET ranked == sort_ranked(results)
    IN  [ status |-> "success",
          total_accounts |-> Len(results),
          top_accounts |-> top_slice(ranked) ]

error_response(code, detail) ==
    [ status |-> "error", status_code |-> code, detail |-> detail ]

\* req.min_followers, where process_account's body is called directly.
MinFollowersValues == { None, Some(0), Some(1000) }

\* req.min_followers of a rank request: not set, or set.
RequestMinFollowers == { None, Some(1000) }

\* Mutant: the credential is not looked at.
key_missing_ignored(key) == FALSE

\* `if not SERPAPI_KEY`
key_missing(key) == ~key

\* Mutant: an empty page does not end the search.
no_results_ignored(page) == FALSE

\* `if not data.get("organic_results"): break`
no_results(page) == page = << >>

\* The details of the error responses, in pieces.
KeyNotSet == << "SERPAPI_KEY", " not set" >>

KeyNotConfigured == << "SERPAPI_KEY", " not configured" >>

InternalServerError == << "Internal Server Error" >>

SerpApiRequestFailed == << "SerpAPI request failed" >>

(***************************************************************************)
(* The rank request.                                                       *)
(***************************************************************************)
Init ==
    /\ pc = "start"
    /\ SERPAPI_KEY \in BOOLEAN
    /\ IG_ACCESS_TOKEN \in BOOLEAN
    /\ min_followers = None
    /\ usernames = << >>
    /\ seen = { }
    /\ start = 0
    /\ dup_dropped = FALSE
    /\ empty_page = FALSE
    /\ task = << >>
    /\ sem = CONCURRENCY_LIMIT
    /\ attempts = << >>
    /\ response = NoResponse
    /\ finished = << >>
    /\ xlink = << >>
    /\ xresult = NoUsername
    /\ rminf = None
    /\ renriched = << >>
    /\ rresponse = NoResponse
    /\ sargs = NoArgs
    /\ sresult = 0
    /\ targs = NoTopArgs
    /\ tresult = NotCalled
    /\ main_app = NotStarted
    /\ reply = NoReply

\* A request arrives with req.min_followers = minf; discover_and_rank runs up
\* to the first search call.
Begin ==
    /\ pc = "start"
    /\ \E minf \in RequestMinFollowers : min_followers' = minf
    /\ IF key_missing(SERPAPI_KEY)
       THEN /\ pc' = "error"
            /\ response' = error_response(500, KeyNotSet)
       ELSE /\ pc' = "discover"
            /\ UNCHANGED response
    /\ UNCHANGED << tVars, SERPAPI_KEY, IG_ACCESS_TOKEN,
                    usernames, seen, start, dup_dropped, empty_page, task, sem,
                    attempts >>
    /\ UNCHANGED << finished, xVars, hVars >>

\* One turn of the while loop: the search call answers with a page.  When the
\* loop ends the tasks are made and handed to asyncio.gather.
SearchPage ==
    /\ pc = "discover"
    /\ start < MaxCalls * PAGE_STEP
    /\ \E page \in Pages :
         LET st == for_items(page, [ usernames |-> usernames, seen |-> seen,
                                     dup |-> dup_dropped ])
         IN
           /\ start' = start + PAGE_STEP
           /\ usernames' = st.usernames
           /\ seen' = st.seen
           /\ dup_dropped' = st.dup
           /\ empty_page' = (empty_page \/ page = << >>)
           /\ IF no_results(page) \/ ~loop_continues(st.usernames)
              THEN /\ pc' = "gather"
                   /\ task' = make_tasks(st.usernames)
              ELSE /\ pc' = "discover"
                   /\ UNCHANGED task
    /\ UNCHANGED << tVars, SERPAPI_KEY, IG_ACCESS_TOKEN, min_followers,
                    sem, attempts, response >>
    /\ UNCHANGED << finished, xVars, hVars >>

\* The search call fails: r.raise_for_status(), the timeout or r.json() raises
\* and nothing in discover_and_rank catches it.
SearchFails ==
    /\ pc = "discover"
    /\ start < MaxCalls * PAGE_STEP
    /\ pc' = "error"
    /\ response' = error_response(500, InternalServerError)
    /\ UNCHANGED << tVars, SERPAPI_KEY, IG_ACCESS_TOKEN, min_followers, usernames,
                    seen, start, dup_dropped, empty_page, task, sem, attempts >>
    /\ UNCHANGED << finished, xVars, hVars >>

\* A task enters `async with sem`.
Acquire(i) ==
    /\ pc = "gather"
    /\ i \in DOMAIN task
    /\ task[i].state = "pending"
    /\ sem_free(sem)
    /\ sem' = sem_acquire(sem)
    /\ task' = [ task EXCEPT ![i].state = "running" ]
    /\ attempts' = LET u == task[i].username
                   IN  IF u \in DOMAIN attempts
                       THEN [ attempts EXCEPT ![u] = @ + 1 ]
                       ELSE attempts @@ (u :> 1)
    /\ UNCHANGED << pc, SERPAPI_KEY, IG_ACCESS_TOKEN, min_followers,
                    usernames, seen, start, dup_dropped, empty_page, response >>
    /\ UNCHANGED << finished, xVars, hVars >>
    /\ UNCHANGED tVars

\* The body of process_account returns and `async with sem` releases.
Finish(i) ==
    /\ pc = "gather"
    /\ i \in DOMAIN task
    /\ task[i].state = "running"
    /\ task' = [ task EXCEPT
                   ![i].state = "done",
                   ![i].calls = provider_calls(task[i].username, IG_ACCESS_TOKEN),
                   ![i].result = process_account(task[i].username, min_followers,
                                                 IG_ACCESS_TOKEN) ]
    /\ sem' = sem_release(sem)
    /\ UNCHANGED << pc, SERPAPI_KEY, IG_ACCESS_TOKEN, min_followers,
                    usernames, seen, start, dup_dropped, empty_page, attempts,
                    response >>
    /\ finished' = Append(finished, i)
    /\ UNCHANGED << xVars, hVars >>
    /\ UNCHANGED tVars

\* asyncio.gather returns (or passes on the exception of a task), the results
\* are ranked and the response is sent.
Return ==
    /\ pc = "gather"
    /\ \A i \in DOMAIN task : task[i].state = "done"
    /\ IF \E i \in DOMAIN task : task[i].result = Raised
       THEN /\ pc' = "error"
            /\ response' = error_response(500, InternalServerError)
       ELSE /\ pc' = "done"
            /\ response' = success_response(gather_results(task))
    /\ UNCHANGED << tVars, SERPAPI_KEY, IG_ACCESS_TOKEN, min_followers,
                    usernames, seen, start, dup_dropped, empty_page, task, sem,
                    attempts >>
    /\ UNCHANGED << finished, xVars, hVars >>

(***************************************************************************)
(* A direct call of extract_valid_instagram_username, on links made of     *)
(* every host, path and ending below.                                       *)
(***************************************************************************)
\* str.upper() of one character.
UpperChar(c) ==
    IF \E i \in DOMAIN LowerChars : LowerChars[i] = c
    THEN UpperChars[CHOOSE i \in DOMAIN LowerChars : LowerChars[i] = c]
    ELSE c

\* The spellings of word w in every mix of lower and upper case.
RECURSIVE Casings(_)
Casings(w) ==
    IF w = << >> THEN { << >> }
    ELSE { << c >> \o t : c \in { Head(w), UpperChar(Head(w)) },
                          t \in Casings(Tail(w)) }

\* The reserved words as section 4.3 of the specification lists them.
SpecReservedWords ==
    { << "p", "o", "s", "t" >>, << "r", "e", "e", "l" >>,
      << "s", "t", "o", "r", "y" >>,
      << "e", "x", "p", "l", "o", "r", "e" >>,
      << "a", "c", "c", "o", "u", "n", "t", "s" >>,
      << "d", "i", "r", "e", "c", "t" >>,
      << "a", "b", "o", "u", "t" >>,
      << "d", "e", "v", "e", "l", "o", "p", "e", "r" >>,
      << "p", "r", "i", "v", "a", "c", "y" >>,
      << "t", "e", "r", "m", "s" >>,
      << "b", "l", "o", "g" >> }

\* The reserved words as the source lists them.
SourceReservedWords ==
    { << "p" >>, << "r", "e", "e", "l" >>, << "t", "v" >>,
      << "s", "t", "o", "r", "i", "e", "s" >>,
      << "e", "x", "p", "l", "o", "r", "e" >>,
      << "a", "c", "c", "o", "u", "n", "t", "s" >>,
      << "d", "i", "r", "e", "c", "t" >>,
      << "a", "b", "o", "u", "t" >>,
      << "d", "e", "v", "e", "l", "o", "p", "e", "r" >>,
      << "p", "r", "i", "v", "a", "c", "y" >>,
      << "t", "e", "r", "m", "s" >>,
      << "b", "l", "o", "g" >> }

SpecReservedCasings == UNION { Casings(w) : w \in SpecReservedWords }

SourceReservedCasings == UNION { Casings(w) : w \in SourceReservedWords }

PathChars == { "/", "a", "P", "-", "_", "9" }

XHosts ==
    { << "https://", "instagram.com" >>,
      << "https://", "www.", "instagram.com" >>,
      << "https://", "example.com" >>,
      << "https://", "evil-", "instagram.com", ".example.io" >>,
      << "instagram.com" >> }

XPaths ==
    UNION { [1..n -> PathChars] : n \in 0..MaxPathLen }
    \cup { << "/" >> \o w : w \in SpecReservedCasings \cup SourceReservedCasings }
    \cup { << "/" >> \o [i \in 1..n |-> "a"] :
             n \in { USERNAME_MAX_LEN, USERNAME_MAX_LEN + 1 } }
    \cup { << "/", "a", ".", "b" >>, << "/", "r", "e", "e", "l", "/", "x" >> }

XEndings == { << >>, << "/" >>, << "?", "utm=1" >> }

XLinks == { h \o p \o e : h \in XHosts, p \in XPaths, e \in XEndings }

\* extract_valid_instagram_username(link) is called ...
CallExtract ==
    /\ pc = "start"
    /\ pc' = "extract"
    /\ \E link \in XLinks : xlink' = link
    /\ UNCHANGED << tVars, SERPAPI_KEY, IG_ACCESS_TOKEN, min_followers, usernames,
                    seen, start, dup_dropped, empty_page, task, sem, attempts,
                    response, finished, xresult >>
    /\ UNCHANGED hVars

\* ... and returns.
ExtractReturn ==
    /\ pc = "extract"
    /\ pc' = "extracted"
    /\ xresult' = extract_valid_instagram_username(xlink)
    /\ UNCHANGED << tVars, SERPAPI_KEY, IG_ACCESS_TOKEN, min_followers, usernames,
                    seen, start, dup_dropped, empty_page, task, sem, attempts,
                    response, finished, xlink >>
    /\ UNCHANGED hVars

(***************************************************************************)
(* A direct call of the body of process_account and of the ranking, on     *)
(* every follower count and post list a provider could give for a handle.  *)
(***************************************************************************)
\* followers: unknown, or a count.
FollowerValues == { None, Some(0), Some(500), Some(2000) }

\* One post as the Graph API gives it.
OnePost == [ like_count |-> 30, comments_count |-> 10 ]

\* posts
PostLists == { << >>, << OnePost >> }

\* What the providers gave for each of n handles, in discovery order.
Enriched ==
    UNION { [1..n -> FollowerValues \X PostLists] : n \in 0..MAX_ACCOUNTS }

\* The handle of the i-th candidate: a, aa, aaa, ...
HandleAt(i) == [ k \in 1..i |-> "a" ]

\* The tasks once each has returned.
returned_tasks(enriched, minf) ==
    [ i \in DOMAIN enriched |->
        [ username |-> HandleAt(i), state |-> "done", calls |-> << >>,
          result |-> account_record(HandleAt(i), enriched[i][1],
                                    enriched[i][2], minf) ] ]

\* The ranking is called ...
CallRanking ==
    /\ pc = "start"
    /\ pc' = "rank"
    /\ \E minf \in MinFollowersValues : rminf' = minf
    /\ \E e \in Enriched : renriched' = e
    /\ UNCHANGED << tVars, SERPAPI_KEY, IG_ACCESS_TOKEN, min_followers, usernames,
                    seen, start, dup_dropped, empty_page, task, sem, attempts,
                    response, finished, rresponse, sargs, sresult >>
    /\ UNCHANGED xVars

\* ... and returns the response.
RankingReturn ==
    /\ pc = "rank"
    /\ pc' = "ranked"
    /\ rresponse' = success_response(
                        gather_results(returned_tasks(renriched, rminf)))
    /\ UNCHANGED << tVars, SERPAPI_KEY, IG_ACCESS_TOKEN, min_followers, usernames,
                    seen, start, dup_dropped, empty_page, task, sem, attempts,
                    response, finished, rminf, renriched, sargs, sresult >>
    /\ UNCHANGED xVars

(***************************************************************************)
(* POST /discover of instgram_finder.py, which reads the same SERPAPI_KEY. *)
(***************************************************************************)
\* `"instagram.com/" not in link`, negated
has_instagram_path(link) ==
    \E i \in 1..(Len(link) - 1) : link[i] = "instagram.com" /\ link[i + 1] = "/"

\* str.rstrip("/")
RECURSIVE rstrip_slash(_)
rstrip_slash(str) ==
    IF str # << >> /\ str[Len(str)] = "/"
    THEN rstrip_slash(SubSeq(str, 1, Len(str) - 1))
    ELSE str

\* url.split("?")[0].rstrip("/")
normalize_instagram_url(url) ==
    rstrip_slash(SubSeq(url, 1, FirstIn(url, { "?" }) - 1))

\* profile_url.rstrip("/").split("/")[-1]
extract_username(profile_url) ==
    LET pieces == split(rstrip_slash(profile_url), "/")
    IN  pieces[Len(pieces)]

\* What fetch_instagram_followers may return: None (any failure) or the count
\* scraped from the profile page.
ScrapedFollowers == { None, Some(1000) }

\* extract_instagram_profiles: scraped[i] is what fetch_instagram_followers
\* returns if it is called for the i-th item.
RECURSIVE extract_instagram_profiles(_, _, _, _)
extract_instagram_profiles(items, scraped, seen_users, profiles) ==
    IF items = << >> THEN profiles
    ELSE LET link == Head(items)
             clean_url == normalize_instagram_url(link)
             username == extract_username(clean_url)
             skip == ~has_instagram_path(link) \/ username \in seen_users
         IN  extract_instagram_profiles(
                 Tail(items), Tail(scraped),
                 IF skip THEN seen_users ELSE seen_users \cup { username },
                 IF skip THEN profiles
                 ELSE Append(profiles,
                             [ username |-> username, profile_url |-> clean_url,
                               followers |-> Head(scraped),
                               source |-> "google_index" ]))

\* str(e) of an exception of the search call that is not an HTTPError.
SearchTimedOut == << "Read timed out" >>

\* discover_instagram_accounts up to the search call: serpapi_search raises
\* RuntimeError when the key is missing, and `except Exception` turns it into
\* HTTPException(500, str(e)).
FinderBegin ==
    /\ pc = "start"
    /\ IF key_missing(SERPAPI_KEY)
       THEN /\ pc' = "finder_error"
            /\ response' = error_response(500, KeyNotConfigured)
       ELSE /\ pc' = "finder_search"
            /\ UNCHANGED response
    /\ UNCHANGED << tVars, SERPAPI_KEY, IG_ACCESS_TOKEN, min_followers, usernames,
                    seen, start, dup_dropped, empty_page, task, sem, attempts >>
    /\ UNCHANGED << finished, xVars, hVars >>

\* The search call answers and the profiles are built.
FinderSearch ==
    /\ pc = "finder_search"
    /\ pc' = "finder_done"
    /\ \E page \in Pages :
         \E scraped \in [DOMAIN page -> ScrapedFollowers] :
           LET accounts ==
                 extract_instagram_profiles(page, scraped, { }, << >>)
           IN  response' = [ status |-> "success", results |-> Len(accounts),
                             accounts |-> accounts ]
    /\ UNCHANGED << tVars, SERPAPI_KEY, IG_ACCESS_TOKEN, min_followers, usernames,
                    seen, start, dup_dropped, empty_page, task, sem, attempts >>
    /\ UNCHANGED << finished, xVars, hVars >>

\* The search call fails: requests.HTTPError gives 502, any other exception
\* 500 with its text.
FinderSearchFails ==
    /\ pc = "finder_search"
    /\ pc' = "finder_error"
    /\ \/ response' = error_response(502, SerpApiRequestFailed)
       \/ response' = error_response(500, SearchTimedOut)
    /\ UNCHANGED << tVars, SERPAPI_KEY, IG_ACCESS_TOKEN, min_followers, usernames,
                    seen, start, dup_dropped, empty_page, task, sem, attempts >>
    /\ UNCHANGED << finished, xVars, hVars >>

(***************************************************************************)
(* compute_final_score of top_posts.py.  Its floats are modelled as exact  *)
(* fractions, and its result in units of 1e-4, the precision it rounds to. *)
(***************************************************************************)
RECURSIVE GCD(_, _)
GCD(a, b) == IF b = 0 THEN a ELSE GCD(b, a % b)

\* The fraction n / d in lowest terms (n >= 0, d > 0).
Rat(n, d) == [ num |-> n \div GCD(n, d), den |-> d \div GCD(n, d) ]

\* x * y
RatMul(x, y) ==
    LET g1 == GCD(x.num, y.den)
        g2 == GCD(y.num, x.den)
    IN  [ num |-> (x.num \div g1) * (y.num \div g2),
          den |-> (x.den \div g2) * (y.den \div g1) ]

\* x < y
RatLess(x, y) == x.num * y.den < y.num * x.den

\* round(x, 4), in units of 1e-4: to the nearest, a tie to the even one.
round4(x) ==
    LET y == RatMul(x, Rat(10000, 1))
        q == y.num \div y.den
        r == y.num % y.den
    IN  IF 2 * r < y.den THEN q
        ELSE IF 2 * r > y.den THEN q + 1
        ELSE IF q % 2 = 0 THEN q ELSE q + 1

\* Mutant: views add nothing to the weight.
vsr_without_views(post) ==
    Rat(post.comments * 100 + post.shares * 100 + post.likes * 30, 10)

\* vsr = (comments * 10) + (shares * 10) + (likes * 3) + (views * 0.1)
vsr(post) ==
    Rat(post.comments * 100 + post.shares * 100 + post.likes * 30 + post.plays,
        10)

\* Mutant: the momentum is the average over the views.
vm_inverted(views, avg_views_30d) ==
    IF avg_views_30d.num > 0 /\ views > 0
    THEN Rat(avg_views_30d.num, views * avg_views_30d.den)
    ELSE Rat(1, 1)

\* Mutant: without an average the momentum is 0.
vm_zero_without_average(views, avg_views_30d) ==
    IF avg_views_30d.num > 0
    THEN Rat(views * avg_views_30d.den, avg_views_30d.num)
    ELSE Rat(0, 1)

\* vm = views / avg_views_30d if avg_views_30d > 0, else 1
vm(views, avg_views_30d) ==
    IF avg_views_30d.num > 0
    THEN Rat(views * avg_views_30d.den, avg_views_30d.num)
    ELSE Rat(1, 1)

\* Mutant: the efficiency is the followers over the views.
fe_inverted(views, followers) ==
    IF followers > 0 /\ views > 0 THEN Rat(followers, views) ELSE Rat(0, 1)

\* Mutant: without followers the efficiency is 1.
fe_neutral_without_followers(views, followers) ==
    IF followers > 0 THEN Rat(views, followers) ELSE Rat(1, 1)

\* fe = views / followers if followers > 0, else 0
fe(views, followers) ==
    IF followers > 0 THEN Rat(views, followers) ELSE Rat(0, 1)

compute_final_score(post, avg_views_30d, followers) ==
    round4(RatMul(RatMul(vsr(post), vm(post.plays, avg_views_30d)),
                  fe(post.plays, followers)))

\* The greatest value of a counter of the generated posts.
MaxCounter == 2

Counters == 0..MaxCounter

\* avg_views_30d and followers of the generated calls.
AvgViews == { Rat(0, 1), Rat(1, 1), Rat(3, 1) }

FollowerCounts == { 0, 1, 3 }

\* likes=100, comments=50, shares=20, views=10000, followers=5000,
\* avg_views=5000
ExampleArgs ==
    [ post |-> [ likes |-> 100, comments |-> 50, shares |-> 20,
                 plays |-> 10000 ],
      avg_views_30d |-> Rat(5000, 1), followers |-> 5000 ]

ScoreArgs ==
    { [ post |-> [ likes |-> l, comments |-> c, shares |-> h, plays |-> v ],
        avg_views_30d |-> a, followers |-> f ] :
        l \in Counters, c \in Counters, h \in Counters, v \in Counters,
        a \in AvgViews, f \in FollowerCounts }
    \cup { ExampleArgs }

\* compute_final_score(post, avg_views_30d, followers) is called ...
CallScore ==
    /\ pc = "start"
    /\ pc' = "score"
    /\ \E args \in ScoreArgs : sargs' = args
    /\ UNCHANGED << tVars, SERPAPI_KEY, IG_ACCESS_TOKEN, min_followers, usernames,
                    seen, start, dup_dropped, empty_page, task, sem, attempts,
                    response, finished, rminf, renriched, rresponse, sresult >>
    /\ UNCHANGED xVars

\* ... and returns.
ScoreReturn ==
    /\ pc = "score"
    /\ pc' = "scored"
    /\ sresult' = compute_final_score(sargs.post, sargs.avg_views_30d,
                                      sargs.followers)
    /\ UNCHANGED << tVars, SERPAPI_KEY, IG_ACCESS_TOKEN, min_followers, usernames,
                    seen, start, dup_dropped, empty_page, task, sem, attempts,
                    response, finished, rminf, renriched, rresponse, sargs >>
    /\ UNCHANGED xVars

(***************************************************************************)
(* get_top_posts of src/top_posts.py, the function behind POST /top-posts. *)
(* A media entry of the Graph answer is a record: timestamp says whether   *)
(* post["timestamp"] parses to a time within the last 30 days ("recent"),  *)
(* to an older one ("old"), or is missing or does not parse ("malformed"); *)
(* id is None where the entry has no "id"; like_count and comments_count   *)
(* are None where the entry lacks them; insights is what the insights      *)
(* endpoint answers for the entry.  The caption, the permalink and the     *)
(* user name are copied through and are left out.                          *)
(***************************************************************************)
Returns(v) == [ kind |-> "returned", value |-> v ]

Raises(e) == [ kind |-> "raised", error |-> e ]

ZeroInsights == [ plays |-> 0, shares |-> 0, saved |-> 0 ]

\* What the insights endpoint answers.
Metrics(plays, shares) ==
    [ kind |-> "metrics", plays |-> plays, shares |-> shares ]

InsightsRequestFailed == [ kind |-> "request_failed", plays |-> 0, shares |-> 0 ]

InsightsNotJson == [ kind |-> "non_json", plays |-> 0, shares |-> 0 ]

\* A metric entry whose "values" list is empty.
InsightsEmptyValues == [ kind |-> "empty_values", plays |-> 0, shares |-> 0 ]

\* get_media_insights: the request and safe_json are inside the try; the loop
\* over the metrics, with metric.get("values", [{}])[0], is outside it.
get_media_insights(answer) ==
    IF answer.kind = "request_failed" THEN Returns(ZeroInsights)
    ELSE IF answer.kind = "non_json" THEN Returns(ZeroInsights)
    ELSE IF answer.kind = "empty_values" THEN Raises("IndexError")
    ELSE Returns([ plays |-> answer.plays, shares |-> answer.shares,
                   saved |-> 0 ])

\* What the follower lookup answers: followers_count is None where the
\* request fails or the answer has no business_discovery.
get_follower_count(answer) == IF answer = None THEN 0 ELSE Val(answer)

\* dict.get(key, 0) of a counter that may be missing
get_or_zero(o) == IF o = None THEN 0 ELSE Val(o)

\* One turn of the loop over media: the entry is skipped, or appended to
\* recent_posts, or an exception leaves the function.
post_outcome(post) ==
    IF post.timestamp = "malformed" THEN [ kind |-> "skipped" ]
    ELSE IF post.timestamp = "old" THEN [ kind |-> "skipped" ]
    ELSE
      LET insights ==
            IF post.media_type \in { "VIDEO", "REEL" }
            THEN IF post.id = None THEN Raises("KeyError")
                 ELSE get_media_insights(post.insights)
            ELSE Returns(ZeroInsights)
      IN  IF insights.kind = "raised" THEN insights
          ELSE Returns([ post_id |-> post.id,
                         likes |-> get_or_zero(post.like_count),
                         comments |-> get_or_zero(post.comments_count),
                         plays |-> insights.value.plays,
                         shares |-> insights.value.shares,
                         saved |-> insights.value.saved,
                         media_type |-> post.media_type ])

\* Mutant: the posts without views count in the average.
view_samples_all(recent_posts) ==
    [ i \in DOMAIN recent_posts |-> recent_posts[i].plays ]

\* view_samples = [p["plays"] for p in recent_posts if p["plays"] > 0]
view_samples(recent_posts) ==
    SelectSeq([ i \in DOMAIN recent_posts |-> recent_posts[i].plays ],
              LAMBDA v : v > 0)

RECURSIVE sum(_)
sum(s) == IF s = << >> THEN 0 ELSE Head(s) + sum(Tail(s))

\* sum(view_samples) / len(view_samples) if view_samples else 0
average_views(recent_posts) ==
    LET samples == view_samples(recent_posts)
    IN  IF samples # << >> THEN Rat(sum(samples), Len(samples)) ELSE Rat(0, 1)

\* round(x, 2), in units of 1e-2: to the nearest, a tie to the even one.
round2(x) ==
    LET y == RatMul(x, Rat(100, 1))
        q == y.num \div y.den
        r == y.num % y.den
    IN  IF 2 * r < y.den THEN q
        ELSE IF 2 * r > y.den THEN q + 1
        ELSE IF q % 2 = 0 THEN q ELSE q + 1

\* The place of posts[i] in the stable descending sort by final_score.
final_rank_of(posts, i) ==
    1 + Cardinality({ j \in DOMAIN posts :
                        \/ posts[j].final_score > posts[i].final_score
                        \/ /\ posts[j].final_score = posts[i].final_score
                           /\ j < i })

\* recent_posts.sort(key=lambda x: x["final_score"], reverse=True)
sort_by_final_score(posts) ==
    [ k \in DOMAIN posts |->
        posts[CHOOSE i \in DOMAIN posts : final_rank_of(posts, i) = k] ]

\* min(len(recent_posts), limit)
posts_returned(recent_posts, limit) ==
    IF Len(recent_posts) < limit THEN Len(recent_posts) ELSE limit

\* recent_posts[:limit]: a negative limit counts from the end of the list.
top_posts(recent_posts, limit) ==
    LET stop == IF limit >= 0
                THEN IF limit < Len(recent_posts) THEN limit
                     ELSE Len(recent_posts)
                ELSE IF Len(recent_posts) + limit > 0
                     THEN Len(recent_posts) + limit
                     ELSE 0
    IN  SubSeq(recent_posts, 1, stop)

top_posts_error(reason) == [ status |-> "error", reason |-> reason ]

\* The part of fetch_top_posts_by_username behind the loop over media.
score_and_rank(recent_posts, limit, followers) ==
    LET avg_views_30d == average_views(recent_posts)
        scored ==
          [ i \in DOMAIN recent_posts |->
              [ post_id |-> recent_posts[i].post_id,
                likes |-> recent_posts[i].likes,
                comments |-> recent_posts[i].comments,
                plays |-> recent_posts[i].plays,
                shares |-> recent_posts[i].shares,
                saved |-> recent_posts[i].saved,
                media_type |-> recent_posts[i].media_type,
                final_score |-> compute_final_score(recent_posts[i],
                                                    avg_views_30d, followers) ] ]
        sorted == sort_by_final_score(scored)
    IN  [ status |-> "success",
          followers |-> followers,
          avg_views_30d |-> round2(avg_views_30d),
          posts_returned |-> posts_returned(sorted, limit),
          top_posts |-> top_posts(sorted, limit) ]

\* The posts the loop appends, in the order of the media.
recent_posts_of(outcomes) ==
    LET kept == SelectSeq(outcomes, LAMBDA o : o.kind = "returned")
    IN  [ i \in DOMAIN kept |-> kept[i].value ]

fetch_top_posts_by_username(args, ACCESS_TOKEN) ==
    IF ~ACCESS_TOKEN \/ ~args.IG_PARENT_USER_ID
    THEN Returns(top_posts_error("missing_env"))
    ELSE IF args.graph.kind = "request_failed"
    THEN Returns(top_posts_error("request_failed"))
    ELSE IF args.graph.kind = "error"
    THEN Returns(top_posts_error("graph_api_error"))
    ELSE IF args.graph.kind \in { "non_json", "no_business_discovery" }
    THEN Returns(top_posts_error("business_discovery_unavailable"))
    ELSE
      LET media == args.graph.media
          outcomes == [ i \in DOMAIN media |-> post_outcome(media[i]) ]
          raising == { i \in DOMAIN media : outcomes[i].kind = "raised" }
      IN  IF raising # { }
          THEN outcomes[CHOOSE i \in raising : \A j \in raising : i <= j]
          ELSE Returns(score_and_rank(recent_posts_of(outcomes), args.limit,
                                      get_follower_count(args.followers_count)))

\* get_top_posts hands the call on, without a try of its own.
get_top_posts(args, ACCESS_TOKEN) == fetch_top_posts_by_username(args, ACCESS_TOKEN)

\* The greatest length of the media list and the greatest limit of a request.
MaxMedia == 2

MaxLimit == 2

\* TopPostsRequest.limit is an int without bounds.
Limits == { 0 - 1 } \cup 0..MaxLimit

MediaEntry(ts, type, id, likes, comments, insights) ==
    [ timestamp |-> ts, media_type |-> type, id |-> id, like_count |-> likes,
      comments_count |-> comments, insights |-> insights ]

MediaEntries ==
    { MediaEntry("recent", "IMAGE", <<"m">>, Some(2), Some(1), Metrics(0, 0)),
      MediaEntry("recent", "VIDEO", <<"m">>, Some(1), None, Metrics(4, 1)),
      MediaEntry("recent", "REEL", <<"m">>, None, None, Metrics(2, 0)),
      MediaEntry("recent", "VIDEO", <<"m">>, Some(1), Some(1),
                 InsightsRequestFailed),
      MediaEntry("recent", "REEL", <<"m">>, Some(1), None, InsightsNotJson),
      MediaEntry("recent", "VIDEO", <<"m">>, Some(1), Some(1),
                 InsightsEmptyValues),
      MediaEntry("recent", "VIDEO", None, Some(1), Some(1), Metrics(4, 1)),
      MediaEntry("old", "VIDEO", <<"m">>, Some(2), Some(1), Metrics(4, 1)),
      MediaEntry("malformed", "IMAGE", <<"m">>, Some(2), Some(1),
                 Metrics(0, 0)) }

MediaLists == UNION { [ 1..n -> MediaEntries ] : n \in 0..MaxMedia }

GraphAnswers ==
    { [ kind |-> k, media |-> << >> ] :
        k \in { "request_failed", "non_json", "error",
                "no_business_discovery" } }
    \cup { [ kind |-> "media", media |-> m ] : m \in MediaLists }

FollowerAnswers == { None, Some(3) }

TopPostsArgs ==
    { [ limit |-> l, IG_PARENT_USER_ID |-> FALSE,
        graph |-> [ kind |-> "media", media |-> << >> ],
        followers_count |-> None ] : l \in Limits }
    \cup { [ limit |-> l, IG_PARENT_USER_ID |-> TRUE, graph |-> g,
             followers_count |-> f ] :
             l \in Limits, g \in GraphAnswers, f \in FollowerAnswers }

\* POST /top-posts calls get_top_posts(req.username, req.limit) ...
CallTopPosts ==
    /\ pc = "start"
    /\ pc' = "top_posts"
    /\ \E args \in TopPostsArgs : targs' = args
    /\ UNCHANGED << SERPAPI_KEY, IG_ACCESS_TOKEN, min_followers, usernames,
                    seen, start, dup_dropped, empty_page, task, sem, attempts,
                    response, finished, tresult, main_app, reply >>
    /\ UNCHANGED << xVars, hVars >>

\* ... which returns or raises.
TopPostsReturn ==
    /\ pc = "top_posts"
    /\ pc' = "top_posts_done"
    /\ tresult' = get_top_posts(targs, IG_ACCESS_TOKEN)
    /\ UNCHANGED << SERPAPI_KEY, IG_ACCESS_TOKEN, min_followers, usernames,
                    seen, start, dup_dropped, empty_page, task, sem, attempts,
                    response, finished, targs, main_app, reply >>
    /\ UNCHANGED << xVars, hVars >>

(***************************************************************************)
(* The core imports of src/main.py and its legacy routes.  The imports run *)
(* in the order of CoreModules, inside one try whose only handler is       *)
(* `except ImportError`.  An import succeeds, raises ImportError (the      *)
(* module or the name is missing), or raises something else: a SyntaxError *)
(* of a broken file, or what a module's top-level code raises, such as the *)
(* RuntimeError of src/audio_pipeline.py where an environment variable is  *)
(* missing.                                                                *)
(***************************************************************************)
CoreModules ==
    << "instagram_analyzer", "content_ideas", "image_analyzer",
       "mini_video_analyzer", "video_analyzer", "top_posts", "trend_engine",
       "audio_pipeline", "media_splitter", "audio_transcriber",
       "instagram_finder", "cdn_resolver" >>

\* The two imports that have a try of their own.
SafelyImported == { "mini_video_analyzer", "video_analyzer" }

ImportOutcomes == { "ok", "ImportError", "other" }

\* What becomes of an exception of an import: the inner handlers and the
\* outer one name ImportError only.
caught(module, outcome) ==
    IF outcome = "ImportError"
    THEN IF module \in SafelyImported THEN "inner" ELSE "outer"
    ELSE "uncaught"

\* One import statement of the try block, and what follows it up to the
\* next import; behind the last one the three routers are registered.
import_step(app, outcome) ==
    LET module == CoreModules[app.next]
        last == app.next = Len(CoreModules)
    IN  IF outcome = "ok"
        THEN [ status |-> IF last THEN "full" ELSE "importing",
               next |-> app.next + 1,
               loaded |-> app.loaded \cup { module },
               routers |-> last ]
        ELSE IF caught(module, outcome) = "inner"
        THEN [ app EXCEPT !.next = app.next + 1 ]
        ELSE IF caught(module, outcome) = "outer"
        THEN [ app EXCEPT !.status = "partial" ]
        ELSE [ app EXCEPT !.status = "crashed" ]

\* The legacy routes and the module whose function each of them needs.
LegacyRoutes ==
    { <<"/analyze", "instagram_analyzer">>,
      <<"/generate-content-ideas", "content_ideas">>,
      <<"/top-posts", "top_posts">>,
      <<"/analyze-industry", "trend_engine">>,
      <<"/analyze-image", "image_analyzer">>,
      <<"/analyze/reel/mini", "mini_video_analyzer">>,
      <<"/analyze/reel/full", "video_analyzer">>,
      <<"/analyze-reel-audio", "audio_pipeline">>,
      <<"/resolve/reel", "cdn_resolver">> }

\* if not <function>: return error_response(...); otherwise the module's
\* function is called.
legacy_route(route, loaded) ==
    IF route[2] \notin loaded
    THEN [ route |-> route[1], status |-> "error" ]
    ELSE [ route |-> route[1], status |-> "module_called" ]

\* The process starts: the names are set to None and the try block begins.
StartMain ==
    /\ pc = "start"
    /\ pc' = "main_import"
    /\ main_app' = [ NotStarted EXCEPT !.status = "importing" ]
    /\ UNCHANGED << SERPAPI_KEY, IG_ACCESS_TOKEN, min_followers, usernames,
                    seen, start, dup_dropped, empty_page, task, sem, attempts,
                    response, finished, targs, tresult, reply >>
    /\ UNCHANGED << xVars, hVars >>

\* The next import runs.
ImportModule ==
    /\ pc = "main_import"
    /\ \E outcome \in ImportOutcomes :
         main_app' = import_step(main_app, outcome)
    /\ pc' = IF main_app'.status = "importing" THEN "main_import"
             ELSE IF main_app'.status = "crashed" THEN "main_crashed"
             ELSE "main_up"
    /\ UNCHANGED << SERPAPI_KEY, IG_ACCESS_TOKEN, min_followers, usernames,
                    seen, start, dup_dropped, empty_page, task, sem, attempts,
                    response, finished, targs, tresult, reply >>
    /\ UNCHANGED << xVars, hVars >>

\* The app is up and a legacy route is requested.
LegacyRequest ==
    /\ pc = "main_up"
    /\ pc' = "main_replied"
    /\ \E route \in LegacyRoutes :
         reply' = legacy_route(route, main_app.loaded)
    /\ UNCHANGED << SERPAPI_KEY, IG_ACCESS_TOKEN, min_followers, usernames,
                    seen, start, dup_dropped, empty_page, task, sem, attempts,
                    response, finished, targs, tresult, main_app >>
    /\ UNCHANGED << xVars, hVars >>

\* The steps of a rank request.
RankNext ==
    \/ Begin
    \/ SearchPage
    \/ SearchFails
    \/ \E i \in DOMAIN task : Acquire(i)
    \/ \E i \in DOMAIN task : Finish(i)
    \/ Return

Next ==
    \/ RankNext
    \/ CallExtract
    \/ ExtractReturn
    \/ CallRanking
    \/ RankingReturn
    \/ FinderBegin
    \/ FinderSearch
    \/ FinderSearchFails
    \/ CallScore
    \/ ScoreReturn
    \/ CallTopPosts
    \/ TopPostsReturn
    \/ StartMain
    \/ ImportModule
    \/ LegacyRequest

Spec == Init /\ [][Next]_vars

\* The event loop runs some task while one can run, and the request once
\* gather has its results.
Fairness ==
    /\ WF_vars(\E i \in DOMAIN task : Acquire(i))
    /\ WF_vars(\E i \in DOMAIN task : Finish(i))
    /\ WF_vars(Return)

\* A rank request under fair scheduling.
FairSpec == Init /\ [][RankNext]_vars /\ Fairness

(***************************************************************************)
(* Properties.                                                             *)
(***************************************************************************)
Done(i) == task[i].state = "done"

Running == { i \in DOMAIN task : task[i].state = "running" }

\* C1: a handle whose enrichment got nothing from any provider (no provider
\* call of this code ever succeeds) gets a fallback record with a score >= 0;
\* once enrichment has begun the request never ends in an error, and the
\* response counts every candidate.
C1_FallbackNeverAborts ==
    /\ \A i \in DOMAIN task :
         Done(i) =>
           /\ task[i].result.kind = "record"
           /\ task[i].result.username = task[i].username
           /\ task[i].result.data_source = "fallback"
           /\ task[i].result.account_score >= 0
    /\ pc = "error" => task = << >>
    /\ pc = "done" =>
         /\ response.status = "success"
         /\ response.total_accounts = Len(usernames)
         /\ \A i \in DOMAIN usernames :
              \E j \in DOMAIN gather_results(task) :
                gather_results(task)[j].username = usernames[i]

C1_Witness ==
    /\ pc = "done"
    /\ Len(usernames) >= 2
    /\ response.total_accounts = Len(usernames)
    /\ \A j \in DOMAIN response.top_accounts :
         response.top_accounts[j].data_source = "fallback"

\* The priority order of the providers, as section 4.4 of the specification
\* gives it.
ProviderOrder == << "graph", "third_party" >>

\* C2: the enrichment of a handle calls the providers in priority order, and a
\* fallback record is returned only after every provider was called and failed.
C2_ProvidersTriedInOrder ==
    \A i \in DOMAIN task :
      (Done(i) /\ task[i].result.kind = "record") =>
        /\ \E n \in 0..Len(ProviderOrder) :
             task[i].calls = SubSeq(ProviderOrder, 1, n)
        /\ task[i].result.data_source = "fallback" =>
             task[i].calls = ProviderOrder

\* C3: every candidate is attempted exactly once: never twice, none but the
\* candidates, and all of them by the time the request returns.
C3_AttemptedExactlyOnce ==
    /\ \A u \in DOMAIN attempts :
         attempts[u] = 1 /\ \E i \in DOMAIN usernames : usernames[i] = u
    /\ pc = "done" =>
         \A i \in DOMAIN usernames : usernames[i] \in DOMAIN attempts

C3_Witness ==
    /\ pc = "gather"
    /\ \E i, j \in DOMAIN task :
         i < j /\ task[i].state = "pending" /\ Done(j)
    /\ \E i \in DOMAIN task : task[i].state = "running"

\* C4: at most CONCURRENCY_LIMIT calls of process_account are inside the
\* semaphore at any moment.
C4_BoundedFanOut == Cardinality(Running) <= CONCURRENCY_LIMIT

C4_Witness ==
    /\ Cardinality(Running) = CONCURRENCY_LIMIT
    /\ \E i \in DOMAIN task : task[i].state = "pending"
    /\ sem = 0

\* C5: under fair scheduling, once discovery has ended the request returns its
\* response (every enrichment has finished by then): the enrichment phase does
\* not last for ever, and the only step out of it is the one to the response.
C5_EnrichmentCompletes ==
    /\ <>[](pc # "gather")
    /\ [][pc = "gather" => pc' \in { "gather", "done" }]_vars

C5_Witness ==
    /\ pc = "done"
    /\ Len(usernames) > CONCURRENCY_LIMIT
    /\ \A i \in DOMAIN task : Done(i)

\* C6: the discovery loop makes a number of search calls bounded by the
\* candidate maximum, whatever pages the provider returns: each call but the
\* last adds a candidate, so there are at most MAX_ACCOUNTS + 1.
C6_BoundedSearchCalls == start <= (MAX_ACCOUNTS + 1) * PAGE_STEP

\* C7: the candidate list holds each handle once, and no two enrichment tasks
\* are for the same handle.
C7_NoDuplicateCandidates ==
    /\ \A i, j \in DOMAIN usernames : usernames[i] = usernames[j] => i = j
    /\ \A i, j \in DOMAIN task : task[i].username = task[j].username => i = j
    /\ seen = Range(usernames)

C7_Witness ==
    /\ dup_dropped
    /\ pc = "gather"
    /\ Len(usernames) = 1
    /\ usernames[1] = << "a", "b" >>
    /\ start = 2 * PAGE_STEP

\* The number of non-empty segments of a path, and the only one.
SegmentCount(path) ==
    Cardinality({ i \in DOMAIN path :
                    path[i] # "/" /\ (i = 1 \/ path[i - 1] = "/") })

OnlySegment(path) == SelectSeq(path, LAMBDA c : c # "/")

\* C8 as stated: a link whose only path segment is, in any casing, a reserved
\* word of the specification's list (post, reel, story, ...) yields no handle,
\* and none of them is in the candidate list.
C8_SpecReservedNeverExtracted ==
    /\ (/\ pc = "extracted"
        /\ SegmentCount(urlparse(xlink).path) = 1
        /\ OnlySegment(urlparse(xlink).path) \in SpecReservedCasings)
         => xresult = NoUsername
    /\ \A i \in DOMAIN usernames : usernames[i] \notin SpecReservedCasings

\* C8 as amended: a link whose only path segment is, in any casing, one of p,
\* reel, tv, stories, explore, accounts, direct, about, developer, privacy,
\* terms, blog yields no handle, and none of them is in the candidate list.
C8_SourceReservedNeverExtracted ==
    /\ (/\ pc = "extracted"
        /\ SegmentCount(urlparse(xlink).path) = 1
        /\ OnlySegment(urlparse(xlink).path) \in SourceReservedCasings)
         => xresult = NoUsername
    /\ \A i \in DOMAIN usernames : usernames[i] \notin SourceReservedCasings

C8_Witness ==
    /\ pc = "extracted"
    /\ xlink = << "https://", "www.", "instagram.com", "/", "S", "t", "o", "r",
                  "i", "e", "S", "/" >>
    /\ xresult = NoUsername

\* C9: the candidate list never holds more than MAX_ACCOUNTS handles, and no
\* search call is made once it holds MAX_ACCOUNTS or once a page was empty.
C9_CandidateCap ==
    /\ [](Len(usernames) <= MAX_ACCOUNTS)
    /\ [][(Len(usernames) >= MAX_ACCOUNTS \/ empty_page) => start' = start]_vars

C9_Witness ==
    /\ Len(usernames) = MAX_ACCOUNTS
    /\ pc = "gather"
    /\ ~empty_page
    /\ start = 2 * PAGE_STEP

\* A handle as section 3 of the specification describes it.
WellFormedHandle(h) ==
    /\ Len(h) >= 1
    /\ Len(h) <= 30
    /\ \A i \in DOMAIN h : h[i] \in Range(LowerChars) \cup Digits \cup { ".", "_" }

\* C10: a link yields a handle only when its path has exactly one non-empty
\* segment, and every handle extracted or in the candidate list is lowercase,
\* of letters, digits, '.' and '_', and 1 to 30 characters long.
C10_HandleShape ==
    /\ (pc = "extracted" /\ xresult # NoUsername) =>
         /\ SegmentCount(urlparse(xlink).path) = 1
         /\ WellFormedHandle(xresult)
    /\ \A i \in DOMAIN usernames : WellFormedHandle(usernames[i])

C10_Witness ==
    /\ pc = "extracted"
    /\ Len(xresult) = 30
    /\ xlink[Len(xlink)] = "/"

\* The entries of list are in descending order of account_score.
SortedDescending(list) ==
    \A i \in 1..(Len(list) - 1) :
      list[i].account_score >= list[i + 1].account_score

\* C11: in every response of a rank request, and in every response the
\* ranking builds from any enrichment results, each entry of top_accounts has
\* an account_score greater than or equal to the next entry's.
C11_SortedByScore ==
    /\ pc = "done" => SortedDescending(response.top_accounts)
    /\ pc = "ranked" => SortedDescending(rresponse.top_accounts)

C11_Witness ==
    /\ pc = "ranked"
    /\ Len(rresponse.top_accounts) >= 2
    /\ rresponse.top_accounts[1].account_score
         > rresponse.top_accounts[2].account_score
    /\ LET results == gather_results(returned_tasks(renriched, rminf))
       IN  /\ results[1].account_score < results[2].account_score
           /\ rresponse.top_accounts[1] = results[2]

\* The place of handle u in the list names.
IndexOf(names, u) == CHOOSE i \in DOMAIN names : names[i] = u

\* Entries of top with equal account_score are in the order of names.
TiesInOrder(top, names) ==
    \A j, k \in DOMAIN top :
      (j < k /\ top[j].account_score = top[k].account_score) =>
        IndexOf(names, top[j].username) < IndexOf(names, top[k].username)

\* What the enrichment of the candidates gives, in discovery order, whatever
\* the order in which the tasks ran.
ResultsInDiscoveryOrder ==
    SelectSeq([ i \in DOMAIN usernames |->
                  process_account(usernames[i], min_followers, IG_ACCESS_TOKEN) ],
              LAMBDA r : r.kind = "record")

\* C12: the response of a rank request is a function of the candidate list and
\* of what the providers gave alone, not of the order in which the enrichment
\* calls started or returned; entries of top_accounts with equal account_score
\* are in discovery order.
C12_OrderIndependent ==
    /\ pc = "done" =>
         /\ response.top_accounts
              = top_slice(sort_ranked(ResultsInDiscoveryOrder))
         /\ TiesInOrder(response.top_accounts, usernames)
    /\ pc = "ranked" =>
         TiesInOrder(rresponse.top_accounts,
                     [ i \in DOMAIN renriched |-> HandleAt(i) ])

\* The second candidate returned first, the first one last.
C12_Witness ==
    /\ pc = "done"
    /\ Len(usernames) = MAX_ACCOUNTS
    /\ finished[1] = 2
    /\ finished[Len(finished)] = 1
    /\ response.top_accounts[1].username = usernames[1]
    /\ response.top_accounts[2].username = usernames[2]

\* The lesser of two numbers.
Min(a, b) == IF a < b THEN a ELSE b

\* The results of the direct call of the ranking, before the sort.
RankingResults == gather_results(returned_tasks(renriched, rminf))

\* resp holds the first TOP_ACCOUNTS of results by score, and counts them all.
TopNOf(resp, results) ==
    /\ Len(resp.top_accounts) = Min(Len(results), TOP_ACCOUNTS)
    /\ resp.total_accounts = Len(results)
    /\ \A j, k \in DOMAIN resp.top_accounts :
         resp.top_accounts[j].username = resp.top_accounts[k].username => j = k
    /\ \A j \in DOMAIN resp.top_accounts :
         \E i \in DOMAIN results : results[i] = resp.top_accounts[j]
    /\ \A i \in DOMAIN results :
         (\A j \in DOMAIN resp.top_accounts : resp.top_accounts[j] # results[i])
           => \A j \in DOMAIN resp.top_accounts :
                results[i].account_score <= resp.top_accounts[j].account_score

\* C13: with n records out of enrichment, top_accounts holds exactly
\* min(n, TOP_ACCOUNTS) of them, each once, no record left out has a greater
\* account_score than one kept, and total_accounts is n.
C13_TopNTruncation ==
    /\ pc = "done" => TopNOf(response, gather_results(task))
    /\ pc = "ranked" => TopNOf(rresponse, RankingResults)

C13_Witness ==
    /\ pc = "ranked"
    /\ Len(RankingResults) > TOP_ACCOUNTS
    /\ Len(rresponse.top_accounts) = TOP_ACCOUNTS
    /\ rresponse.total_accounts = Len(RankingResults)
    /\ \E i \in DOMAIN RankingResults :
         RankingResults[i].account_score
           < rresponse.top_accounts[TOP_ACCOUNTS].account_score

\* The follower count the providers resolved for the i-th handle of the direct
\* call is below min_followers.
BelowMinFollowers(i) ==
    /\ rminf # None
    /\ renriched[i][1] # None
    /\ Val(renriched[i][1]) < Val(rminf)

\* C14: with min_followers set, a candidate whose resolved follower count is
\* below it is in neither top_accounts nor total_accounts, no entry of
\* top_accounts has a follower count below it, and the exclusion comes after
\* the enrichment: every candidate of a request still gets its enrichment.
C14_MinFollowersAfterEnrichment ==
    /\ pc = "ranked" =>
         /\ \A i \in DOMAIN renriched :
              BelowMinFollowers(i) =>
                \A j \in DOMAIN RankingResults :
                  RankingResults[j].username # HandleAt(i)
         /\ rresponse.total_accounts
              = Cardinality({ i \in DOMAIN renriched : ~BelowMinFollowers(i) })
         /\ \A j \in DOMAIN rresponse.top_accounts :
              (rminf # None /\ rresponse.top_accounts[j].followers # None) =>
                Val(rresponse.top_accounts[j].followers) >= Val(rminf)
    /\ (pc \in { "gather", "done" } /\ min_followers # None) =>
         /\ Len(task) = Len(usernames)
         /\ \A i \in DOMAIN task : task[i].username = usernames[i]
    /\ (pc = "done" /\ min_followers # None) =>
         /\ \A i \in DOMAIN usernames : usernames[i] \in DOMAIN attempts
         /\ \A j \in DOMAIN response.top_accounts :
              response.top_accounts[j].followers # None =>
                Val(response.top_accounts[j].followers) >= Val(min_followers)

C14_Witness ==
    /\ pc = "ranked"
    /\ rminf = Some(1000)
    /\ Len(renriched) = MAX_ACCOUNTS
    /\ renriched[1][1] = Some(500)
    /\ renriched[2][1] = Some(2000)
    /\ rresponse.total_accounts = MAX_ACCOUNTS - 1
    /\ rresponse.top_accounts[1].username = HandleAt(2)

\* C15: a request that has completed answers with status "success", and an
\* error response is produced only when the credential SERPAPI_KEY is missing:
\* no failure of a search call or of an enrichment call ends a rank request in
\* an error.
C15_ErrorOnlyWhenCredentialMissing ==
    /\ pc = "done" => response.status = "success"
    /\ pc = "error" => ~SERPAPI_KEY

\* The positions at which a request has gone past the credential check.
PastKeyCheck == { "discover", "gather", "done", "finder_search", "finder_done" }

\* C16: with SERPAPI_KEY missing a request ends at once in an error response
\* whose detail names SERPAPI_KEY; no search call is made, no enrichment is
\* started and no success payload is built.
C16_MissingKeyFailsFast ==
    ~SERPAPI_KEY =>
      /\ pc \notin PastKeyCheck
      /\ start = 0
      /\ usernames = << >>
      /\ task = << >>
      /\ attempts = << >>
      /\ response.status # "success"
      /\ pc \in { "error", "finder_error" } =>
           /\ response.status = "error"
           /\ "SERPAPI_KEY" \in Range(response.detail)

C16_Witness ==
    /\ ~SERPAPI_KEY
    /\ pc = "error"
    /\ response = error_response(500, KeyNotSet)
    /\ min_followers = Some(1000)

\* C17: an empty page ends the search without an error; a request whose
\* search gave no candidate answers with status "success", no top_accounts and
\* total_accounts 0; total_accounts is always the number of records that came
\* out of enrichment.
C17_EmptySearchIsSuccess ==
    /\ empty_page => pc \in { "gather", "done" }
    /\ (pc = "done" /\ usernames = << >>) =>
         response = [ status |-> "success", total_accounts |-> 0,
                      top_accounts |-> << >> ]
    /\ pc = "done" =>
         /\ response.status = "success"
         /\ response.total_accounts
              = Cardinality({ i \in DOMAIN task : task[i].result.kind = "record" })
    /\ pc = "ranked" =>
         rresponse.total_accounts
           = Cardinality({ i \in DOMAIN renriched :
                             account_record(HandleAt(i), renriched[i][1],
                                            renriched[i][2], rminf).kind
                               = "record" })

C17_Witness ==
    /\ pc = "done"
    /\ empty_page
    /\ start = PAGE_STEP
    /\ usernames = << >>
    /\ response.status = "success"
    /\ response.total_accounts = 0
    /\ response.top_accounts = << >>

\* The engagement weight of section 4.6 of the specification, with the
\* weights 10, 10, 3 and 0.1.
engagement_weight(post) ==
    Rat(post.comments * 100 + post.shares * 100 + post.likes * 30 + post.plays,
        10)

\* engagement_weight * view_momentum * follower_efficiency where the average
\* views and the followers are positive, as an exact fraction in units of 1e-4.
ExactScore(args) ==
    RatMul(RatMul(RatMul(engagement_weight(args.post),
                         Rat(args.post.plays * args.avg_views_30d.den,
                             args.avg_views_30d.num)),
                  Rat(args.post.plays, args.followers)),
           Rat(10000, 1))

\* The call is one for which both quotients of the formula are defined.
QuotientsDefined == sargs.avg_views_30d.num > 0 /\ sargs.followers > 0

\* 8000, in units of 1e-4.
ExampleScore == 8000 * 10000

\* C18 as stated: compute_final_score returns exactly engagement_weight *
\* (views / avg_views) * (views / followers), and 8000 for the example.
C18_ExactProduct ==
    pc = "scored" =>
      /\ QuotientsDefined => ExactScore(sargs) = [ num |-> sresult, den |-> 1 ]
      /\ sargs = ExampleArgs => sresult = ExampleScore

\* The distance between two numbers.
Distance(a, b) == IF a < b THEN b - a ELSE a - b

\* C18 as amended: compute_final_score returns engagement_weight *
\* (views / avg_views) * (views / followers) rounded to four decimal places
\* (the result is within 0.00005 of the product), and 8000 for the example.
C18_RoundedProduct ==
    pc = "scored" =>
      /\ QuotientsDefined =>
           2 * Distance(sresult * ExactScore(sargs).den, ExactScore(sargs).num)
             <= ExactScore(sargs).den
      /\ sargs = ExampleArgs => sresult = ExampleScore

C18_Witness ==
    /\ pc = "scored"
    /\ sargs = ExampleArgs
    /\ sresult = ExampleScore

\* The post with counter k greater by d.
Increased(post, k, d) ==
    CASE k = "likes" -> [ post EXCEPT !.likes = @ + d ]
      [] k = "comments" -> [ post EXCEPT !.comments = @ + d ]
      [] k = "shares" -> [ post EXCEPT !.shares = @ + d ]
      [] k = "views" -> [ post EXCEPT !.plays = @ + d ]

CounterNames == { "likes", "comments", "shares", "views" }

\* The greatest difference between the compared values of a counter.
MaxDelta == 2

\* C19: a post that differs from another only in one counter, which is
\* strictly greater, has a strictly greater engagement weight (vsr).
C19_WeightStrictlyMonotone ==
    pc = "scored" =>
      \A k \in CounterNames : \A d \in 1..MaxDelta :
        RatLess(vsr(sargs.post), vsr(Increased(sargs.post, k, d)))

C19_Witness ==
    /\ pc = "scored"
    /\ sargs.post.likes > 0
    /\ sargs.post.comments > 0
    /\ sargs.post.shares > 0
    /\ sargs.post.plays > 0
    /\ LET w == vsr(sargs.post)
           more == vsr(Increased(sargs.post, "views", 1))
       IN  10 * (more.num * w.den - w.num * more.den) = w.den * more.den

\* The post with counter k doubled.
Doubled(post, k) ==
    CASE k = "likes" -> [ post EXCEPT !.likes = 2 * @ ]
      [] k = "comments" -> [ post EXCEPT !.comments = 2 * @ ]
      [] k = "shares" -> [ post EXCEPT !.shares = 2 * @ ]
      [] k = "views" -> [ post EXCEPT !.plays = 2 * @ ]

\* C20: with followers and average views fixed, the final score of a post
\* with one counter doubled is not below the final score of the post.
C20_DoublingNeverDecreases ==
    pc = "scored" =>
      \A k \in CounterNames :
        compute_final_score(Doubled(sargs.post, k), sargs.avg_views_30d,
                            sargs.followers) >= sresult

C20_Witness ==
    /\ pc = "scored"
    /\ sresult > 0
    /\ sargs.avg_views_30d.num = 0
    /\ compute_final_score(Doubled(sargs.post, "views"), sargs.avg_views_30d,
                           sargs.followers) > sresult
    /\ compute_final_score(Doubled(sargs.post, "likes"), sargs.avg_views_30d,
                           sargs.followers) > sresult

\* engagement_weight * follower_efficiency for followers > 0, as an exact
\* fraction in units of 1e-4.
NeutralScore(args) ==
    RatMul(RatMul(engagement_weight(args.post),
                  Rat(args.post.plays, args.followers)),
           Rat(10000, 1))

\* The call has an average of 0 views.
NoAverage == pc = "scored" /\ sargs.avg_views_30d.num = 0

Succeeded ==
    /\ pc = "top_posts_done"
    /\ tresult.kind = "returned"
    /\ tresult.value.status = "success"

\* The posts of the media list that are within the last 30 days, with their
\* views.
Window ==
    recent_posts_of([ i \in DOMAIN targs.graph.media |->
                        post_outcome(targs.graph.media[i]) ])

\* The posts that have views.
Viewed(posts) == SelectSeq(posts, LAMBDA p : p.plays > 0)

\* The mean of the views of posts, 0 when there is none.
MeanViews(posts) ==
    IF posts = << >> THEN Rat(0, 1)
    ELSE Rat(sum([ i \in DOMAIN posts |-> posts[i].plays ]), Len(posts))

\* The response reports the average avg, and each final score is computed
\* with it.
AverageUsed(avg) ==
    /\ tresult.value.avg_views_30d = round2(avg)
    /\ \A i \in DOMAIN tresult.value.top_posts :
         tresult.value.top_posts[i].final_score
           = compute_final_score(tresult.value.top_posts[i], avg,
                                 tresult.value.followers)

\* C22 as stated: the average views of a success response of get_top_posts,
\* with which the view momentum is computed, is the mean of the views of all
\* posts of the window, and 0 when the window is empty.
C22_MeanOverAllPosts == Succeeded => AverageUsed(MeanViews(Window))

\* C22 as amended: the average views is the mean of the views of the posts of
\* the window that have more than 0 views, and 0 when no post of the window
\* has views (so when the window is empty).
C22_MeanOverViewedPosts == Succeeded => AverageUsed(MeanViews(Viewed(Window)))

C22_Witness ==
    /\ Succeeded
    /\ Len(Window) = MaxMedia
    /\ Len(Viewed(Window)) = 1
    /\ tresult.value.avg_views_30d = 4 * 100
    /\ Len(tresult.value.top_posts) = MaxMedia

\* top[j] is an account without posts ranked before top[k], one with posts.
FallbackAbove(top, j, k) ==
    /\ j < k
    /\ top[j].post_count = 0
    /\ top[k].post_count > 0

LabelMatchesPosts(r) ==
    /\ r.data_source = "fallback" => r.post_count = 0
    /\ r.post_count > 0 => r.data_source # "fallback"

\* C24: every record process_account returns with data_source "fallback" has
\* post_count 0, and every record with post_count > 0 has another data_source.
C24_FallbackHasNoPosts ==
    /\ pc = "ranked" =>
         \A j \in DOMAIN RankingResults : LabelMatchesPosts(RankingResults[j])
    /\ pc \in { "gather", "done" } =>
         \A i \in DOMAIN task :
           task[i].result.kind = "record" => LabelMatchesPosts(task[i].result)

C24_Witness ==
    /\ pc = "ranked"
    /\ Len(RankingResults) = MAX_ACCOUNTS
    /\ RankingResults[1].data_source = "fallback"
    /\ RankingResults[1].followers # None
    /\ RankingResults[2].data_source = "graph"
    /\ RankingResults[2].post_count = 1
    /\ RankingResults[MAX_ACCOUNTS].followers = None

\* C25: get_top_posts never raises and always returns an object with a
\* status, whatever the Graph provider answers.
C25_NeverRaises ==
    pc = "top_posts_done" =>
      /\ tresult.kind = "returned"
      /\ tresult.value.status \in { "success", "error" }

\* C26: compute_final_score gives 0 to a post with zero views and to every
\* post where the follower count is 0; so in a success response of
\* get_top_posts every post that is not a VIDEO or REEL has final_score 0, and
\* every post has where the follower lookup failed.
C26_ZeroViewsOrFollowersScoreZero ==
    /\ pc = "scored" =>
         /\ sargs.post.plays = 0 => sresult = 0
         /\ sargs.followers = 0 => sresult = 0
    /\ Succeeded =>
         \A i \in DOMAIN tresult.value.top_posts :
           LET p == tresult.value.top_posts[i]
           IN  /\ p.media_type \notin { "VIDEO", "REEL" } => p.final_score = 0
               /\ p.plays = 0 => p.final_score = 0
               /\ targs.followers_count = None => p.final_score = 0

C26_Witness ==
    /\ Succeeded
    /\ Len(tresult.value.top_posts) = MaxMedia
    /\ tresult.value.top_posts[1].final_score > 0
    /\ tresult.value.top_posts[MaxMedia].media_type = "IMAGE"
    /\ tresult.value.top_posts[MaxMedia].likes > 0
    /\ tresult.value.top_posts[MaxMedia].final_score = 0

\* C27: a candidate whose follower count is unknown is returned as a fallback
\* record whatever min_followers is, and min_followers = 0 gives the results
\* that min_followers not set gives.
C27_UnknownFollowersBypassFilter ==
    /\ pc = "ranked" =>
         /\ \A i \in DOMAIN renriched :
              renriched[i][1] = None =>
                \E j \in DOMAIN RankingResults :
                  /\ RankingResults[j].username = HandleAt(i)
                  /\ RankingResults[j].data_source = "fallback"
         /\ returned_tasks(renriched, Some(0)) = returned_tasks(renriched, None)
    /\ pc = "done" =>
         response.total_accounts = Len(usernames)

C27_Witness ==
    /\ pc = "ranked"
    /\ rminf = Some(1000)
    /\ Len(renriched) = MAX_ACCOUNTS
    /\ renriched[1][1] = None
    /\ renriched[2][1] = Some(500)
    /\ Len(RankingResults) = MAX_ACCOUNTS - 1
    /\ RankingResults[1].username = HandleAt(1)

\* The posts are in descending order of final_score.
SortedByFinalScore(posts) ==
    \A i \in 1..(Len(posts) - 1) :
      posts[i].final_score >= posts[i + 1].final_score

\* C28: in every success response of get_top_posts, for every integer limit,
\* posts_returned is the number of entries of top_posts, top_posts is sorted
\* by final_score descending, and it holds at most limit posts.
C28_PostsReturnedCountsTopPosts ==
    Succeeded =>
      /\ tresult.value.posts_returned = Len(tresult.value.top_posts)
      /\ SortedByFinalScore(tresult.value.top_posts)
      /\ Len(tresult.value.top_posts) <= targs.limit

\* The host is instagram.com or www.instagram.com, the hosts of XHosts that
\* are the platform's domain or a subdomain of it.
PlatformHost(netloc) ==
    netloc \in { << "instagram.com" >>, << "www.", "instagram.com" >> }

\* C29: the extraction yields a handle only for a link whose host is
\* instagram.com or one of its subdomains.
C29_OnlyPlatformHosts ==
    (pc = "extracted" /\ xresult # NoUsername) =>
      PlatformHost(urlparse(xlink).netloc)

\* C30: the start of the main app never crashes on an import that fails,
\* however it fails: the app comes up, what was imported before the failure
\* is usable, and a legacy route whose module is not loaded answers with an
\* error payload.
C30_StartupNeverCrashes ==
    /\ main_app.status # "crashed"
    /\ pc = "main_replied" =>
         \A route \in LegacyRoutes :
           reply.route = route[1] =>
             IF route[2] \in main_app.loaded
             THEN reply.status = "module_called"
             ELSE reply.status = "error"

=============================================================================
